---- MODULE Spec2Model ----
(***************************************************************************)
(* Model of the sustainability-scenario service: the in-memory scenario    *)
(* store (src/server/storage.ts, class MemStorage), the metrics            *)
(* calculation and the HTTP handlers (src/server/routes.ts).               *)
(*                                                                         *)
(* Numbers.  The program computes with IEEE-754 doubles.  The model        *)
(* computes the same quantities exactly, as integer numerators over a      *)
(* stated denominator:                                                     *)
(*   - carbonFootprint is held in tenths (2.8 is 28);                      *)
(*   - an efficiency before rounding is a numerator over productionVolume. *)
(* On every request body enumerated below (GridBodies, SeedBodies,         *)
(* RequestBodies) the double evaluation of routes.ts gives these exact     *)
(* results.  It does not on every input: where an inexact intermediate     *)
(* lands on a rounding tie the double may fall on the other side (for      *)
(* waterUsage 31, productionVolume 8, energyConsumption 8 the program      *)
(* returns sustainabilityScore 22, exact evaluation 23).  Such inputs are  *)
(* outside the enumerated bodies.                                          *)
(* Timestamps (Date values) are integers read from the variable now.       *)
(* Scenario names are written without diacritics.                          *)
(***************************************************************************)
EXTENDS Integers, Sequences, FiniteSets, TLC

VARIABLES
    scenarios,   \* MemStorage.scenarios: the Map, as its entries in insertion order
    currentId,   \* MemStorage.currentId
    now,         \* the wall clock that new Date() reads
    issued,      \* history: every id assigned so far, in order of assignment
    removed,     \* history: every id whose deletion returned true
    last,        \* history: the last completed call (operation, argument, result)
    request,     \* a request body received and not yet handled, or NoRequest
    inflight     \* the requests whose handlers may interleave at their await

vars == <<scenarios, currentId, now, issued, removed, last, request, inflight>>

----------------------------------------------------------------------------
(* Bounds of the model *)

\* create is not offered once currentId has reached this value
MaxCurrentId == 6
\* the clock reads 0..MaxTime
MaxTime == 1

----------------------------------------------------------------------------
(* Values *)

\* no request is waiting
NoRequest == [none |-> TRUE]

\* what Map.get and getScenario give for an absent key
undefined == [undefined |-> TRUE]

Max(a, b) == IF a >= b THEN a ELSE b
Min(a, b) == IF a <= b THEN a ELSE b

----------------------------------------------------------------------------
(* Map<number, Scenario>: a sequence of [key, value] entries, insertion order *)

MapHas(m, k) == \E i \in 1..Len(m) : m[i].key = k

MapGet(m, k) ==
    IF MapHas(m, k)
    THEN (CHOOSE e \in {m[i] : i \in 1..Len(m)} : e.key = k).value
    ELSE undefined

\* Map.set: an existing key keeps its position, a new key goes last
MapSet(m, k, v) ==
    IF MapHas(m, k)
    THEN [i \in 1..Len(m) |-> IF m[i].key = k THEN [key |-> k, value |-> v] ELSE m[i]]
    ELSE Append(m, [key |-> k, value |-> v])

\* Map.delete: the map without the key, and whether the key was there
MapDelete(m, k) ==
    [map |-> SelectSeq(m, LAMBDA e : e.key # k), deleted |-> MapHas(m, k)]

\* Array.from(map.values())
MapValues(m) == [i \in 1..Len(m) |-> m[i].value]

MapKeys(m) == {m[i].key : i \in 1..Len(m)}

----------------------------------------------------------------------------
(* MemStorage *)

\* the three literal seed scenarios; their createdAt are three clock readings, taken
\* one after the other while the constructor runs
defaultScenarios(t1, t2, t3) ==
    << [name |-> "Cenario Atual",
        energyConsumption |-> 5000, wasteGeneration |-> 1200, waterUsage |-> 25000,
        rawMaterials |-> 8000, productionVolume |-> 10000,
        carbonFootprint |-> 28, waterEfficiency |-> 72, energyEfficiency |-> 85,
        sustainabilityScore |-> 76, createdAt |-> t1],
       [name |-> "Cenario Otimizado",
        energyConsumption |-> 3500, wasteGeneration |-> 800, waterUsage |-> 18000,
        rawMaterials |-> 7500, productionVolume |-> 10000,
        carbonFootprint |-> 20, waterEfficiency |-> 85, energyEfficiency |-> 92,
        sustainabilityScore |-> 89, createdAt |-> t2],
       [name |-> "Cenario Verde",
        energyConsumption |-> 2500, wasteGeneration |-> 600, waterUsage |-> 15000,
        rawMaterials |-> 7000, productionVolume |-> 10000,
        carbonFootprint |-> 14, waterEfficiency |-> 92, energyEfficiency |-> 96,
        sustainabilityScore |-> 94, createdAt |-> t3] >>

\* { ...scenario, id }
WithId(scenario, id) == [id |-> id] @@ scenario

RECURSIVE initializeDefaultScenarios(_, _, _)
\* forEach over the seeds: id = this.currentId++, then scenarios.set(id, {...scenario, id})
initializeDefaultScenarios(m, cur, seeds) ==
    IF seeds = <<>> THEN [scenarios |-> m, currentId |-> cur]
    ELSE initializeDefaultScenarios(
             MapSet(m, cur, WithId(Head(seeds), cur)), cur + 1, Tail(seeds))

\* a slip: the counter started at 0
MemStorage_CounterFromZero(t1, t2, t3) ==
    initializeDefaultScenarios(<<>>, 0, defaultScenarios(t1, t2, t3))

\* constructor: an empty map, currentId = 1, then the seeds
MemStorage(t1, t2, t3) ==
    initializeDefaultScenarios(<<>>, 1, defaultScenarios(t1, t2, t3))

getScenario(m, id) == MapGet(m, id)

compareCreatedAt_Ascending(a, b) == a.createdAt - b.createdAt

\* (a, b) => b.createdAt.getTime() - a.createdAt.getTime()
compareCreatedAt(a, b) == b.createdAt - a.createdAt

RECURSIVE SortedInsert(_, _)
\* one step of a stable sort: x goes after every element the comparator does not
\* place after it
SortedInsert(s, x) ==
    IF s = <<>> THEN <<x>>
    ELSE IF compareCreatedAt(Head(s), x) <= 0
         THEN <<Head(s)>> \o SortedInsert(Tail(s), x)
         ELSE <<x>> \o s

RECURSIVE ArraySort(_)
\* Array.prototype.sort with the comparator above (the sort is stable)
ArraySort(arr) ==
    IF arr = <<>> THEN <<>>
    ELSE SortedInsert(ArraySort(SubSeq(arr, 1, Len(arr) - 1)), arr[Len(arr)])

\* Array.from(this.scenarios.values()).sort(...)
getAllScenarios(m) == ArraySort(MapValues(m))

\* a slip: the id taken from the number of stored records
createScenario_IdFromSize(m, cur, insertScenario, t) ==
    LET id == Len(m) + 1
        scenario == [id |-> id, createdAt |-> t] @@ insertScenario
    IN  [scenarios |-> MapSet(m, id, scenario), currentId |-> cur + 1, ret |-> scenario]

\* a slip: ++this.currentId instead of this.currentId++
createScenario_PreIncrement(m, cur, insertScenario, t) ==
    LET id == cur + 1
        scenario == [id |-> id, createdAt |-> t] @@ insertScenario
    IN  [scenarios |-> MapSet(m, id, scenario), currentId |-> cur + 1, ret |-> scenario]

\* a slip: this.currentId read but not incremented
createScenario_NoIncrement(m, cur, insertScenario, t) ==
    LET id == cur
        scenario == [id |-> id, createdAt |-> t] @@ insertScenario
    IN  [scenarios |-> MapSet(m, id, scenario), currentId |-> cur, ret |-> scenario]

\* id = this.currentId++; scenario = {...insertScenario, id, createdAt: new Date()};
\* scenarios.set(id, scenario); return scenario
createScenario(m, cur, insertScenario, t) ==
    LET id == cur
        scenario == [id |-> id, createdAt |-> t] @@ insertScenario
    IN  [scenarios |-> MapSet(m, id, scenario), currentId |-> cur + 1, ret |-> scenario]

\* a slip: reports a removal whether or not the key was there
deleteScenario_AlwaysTrue(m, id) ==
    [scenarios |-> MapDelete(m, id).map, ret |-> TRUE]

\* return this.scenarios.delete(id)
deleteScenario(m, id) ==
    [scenarios |-> MapDelete(m, id).map, ret |-> MapDelete(m, id).deleted]

----------------------------------------------------------------------------
(* Inputs of the store's own interface (IStorage) *)

\* InsertScenario & metrics: any well-typed record; the store does not look inside
InsertInputs ==
    { [name |-> "n1",
       energyConsumption |-> 3500, wasteGeneration |-> 800, waterUsage |-> 18000,
       rawMaterials |-> 7500, productionVolume |-> 10000,
       carbonFootprint |-> 26, waterEfficiency |-> 100, energyEfficiency |-> 100,
       sustainabilityScore |-> 100],
      [name |-> "n2",
       energyConsumption |-> 45, wasteGeneration |-> 5, waterUsage |-> 239,
       rawMaterials |-> 1, productionVolume |-> 80,
       carbonFootprint |-> 0, waterEfficiency |-> 81, energyEfficiency |-> 88,
       sustainabilityScore |-> 84] }

\* ids a caller may pass: stored, deleted, never assigned, not positive
IdArgs == 0..MaxCurrentId

----------------------------------------------------------------------------
(* Initial state: the module-level `new MemStorage()` *)

StoreInit ==
    \E t1, t2, t3 \in 0..1 :
        /\ t1 = 0 /\ t1 <= t2 /\ t2 <= t3
        /\ scenarios = MemStorage(t1, t2, t3).scenarios
        /\ currentId = MemStorage(t1, t2, t3).currentId
        /\ now = t3
        /\ issued = [i \in 1..3 |-> MemStorage(t1, t2, t3).scenarios[i].key]
        /\ removed = {}
        /\ last = [op |-> "new MemStorage"]

Init == StoreInit /\ request = NoRequest /\ inflight = <<>>

\* the wall clock moves; it is the system clock, so it may also be set back
Tick ==
    /\ \E t \in 0..MaxTime : t # now /\ now' = t
    /\ UNCHANGED <<scenarios, currentId, issued, removed, last, request, inflight>>

----------------------------------------------------------------------------
(* The store called directly through IStorage *)

StoreGet(id) ==
    /\ last' = [op |-> "getScenario", id |-> id, ret |-> getScenario(scenarios, id)]
    /\ UNCHANGED <<scenarios, currentId, now, issued, removed, request, inflight>>

StoreList ==
    /\ last' = [op |-> "getAllScenarios", ret |-> getAllScenarios(scenarios)]
    /\ UNCHANGED <<scenarios, currentId, now, issued, removed, request, inflight>>

StoreCreate(input) ==
    /\ currentId < MaxCurrentId
    /\ LET r == createScenario(scenarios, currentId, input, now)
       IN  /\ scenarios' = r.scenarios
           /\ currentId' = r.currentId
           /\ issued' = Append(issued, r.ret.id)
           /\ last' = [op |-> "createScenario", input |-> input, ret |-> r.ret,
                       counterBefore |-> currentId, sizeBefore |-> Len(scenarios)]
    /\ UNCHANGED <<now, removed, request, inflight>>

StoreDelete(id) ==
    /\ LET r == deleteScenario(scenarios, id)
       IN  /\ scenarios' = r.scenarios
           /\ removed' = IF r.ret THEN removed \cup {id} ELSE removed
           /\ last' = [op |-> "deleteScenario", id |-> id, ret |-> r.ret,
                       wasStored |-> id \in MapKeys(scenarios)]
    /\ UNCHANGED <<currentId, now, issued, request, inflight>>

StoreNext ==
    \/ Tick
    \/ \E id \in IdArgs : StoreGet(id)
    \/ StoreList
    \/ \E input \in InsertInputs : StoreCreate(input)
    \/ \E id \in IdArgs : StoreDelete(id)

StoreSpec == Init /\ [][StoreNext]_vars

----------------------------------------------------------------------------
(* calculateSustainabilityMetrics (routes.ts) *)

\* scenarioData / params as validated by the schemas of @shared/schema, which is not
\* part of the sources at hand: non-negative numbers, a positive productionVolume
processParametersSchemaOk(body) ==
    /\ body.energyConsumption >= 0
    /\ body.wasteGeneration >= 0
    /\ body.waterUsage >= 0
    /\ body.rawMaterials >= 0
    /\ body.productionVolume > 0

\* the same, and a non-empty name
insertScenarioSchemaOk(body) ==
    /\ processParametersSchemaOk(body)
    /\ body.name # ""

\* a slip: Math.floor (or truncation) where Math.round was meant
Round_Floor(num, den) == num \div den

\* Math.round(num / den), den > 0: the nearest integer, a tie going up
Round(num, den) == (2 * num + den) \div (2 * den)

\* a slip: the lower clamp forgotten
Clamp_NoLowerBound(num, den) == Min(100 * den, num)

\* a slip: the upper clamp forgotten
Clamp_NoUpperBound(num, den) == Max(0, num)

\* Math.max(0, Math.min(100, num / den)), as a numerator over den
Clamp(num, den) == Max(0, Min(100 * den, num))

\* energyConsumption * 0.0005 + wasteGeneration * 0.001, as a numerator over 10000
carbonFootprintRaw(params) ==
    params.energyConsumption * 5 + params.wasteGeneration * 10

\* 100 - ((waterUsage / productionVolume - 2.5) / 2.5 * 100), as a numerator over
\* productionVolume: (w/v - 5/2) / (5/2) * 100 = 20 * (2w - 5v) / v
waterEfficiencyRaw(params) ==
    100 * params.productionVolume
        - 20 * (2 * params.waterUsage - 5 * params.productionVolume)

\* 100 - ((energyConsumption / productionVolume - 0.5) / 0.5 * 100), as a numerator
\* over productionVolume: (e/v - 1/2) / (1/2) * 100 = 100 * (2e - v) / v
energyEfficiencyRaw(params) ==
    100 * params.productionVolume
        - 100 * (2 * params.energyConsumption - params.productionVolume)

\* a slip: the score taken from the two efficiencies after their rounding
calculateSustainabilityMetrics_ScoreFromRounded(params) ==
    LET v == params.productionVolume
        w == Round(Clamp(waterEfficiencyRaw(params), v), v)
        e == Round(Clamp(energyEfficiencyRaw(params), v), v)
    IN  [carbonFootprint     |-> Round(carbonFootprintRaw(params) * 10, 10000),
         waterEfficiency     |-> w,
         energyEfficiency    |-> e,
         sustainabilityScore |-> Round(w + e, 2)]

\* the four metrics; carbonFootprint in tenths (Math.round(x * 10) / 10 is that many
\* tenths).  sustainabilityScore rounds the mean of the two clamped efficiencies as
\* they are BEFORE their own rounding (routes.ts line 34 uses the unrounded locals).
calculateSustainabilityMetrics(params) ==
    LET v == params.productionVolume
        waterEfficiency  == Clamp(waterEfficiencyRaw(params), v)
        energyEfficiency == Clamp(energyEfficiencyRaw(params), v)
    IN  [carbonFootprint     |-> Round(carbonFootprintRaw(params) * 10, 10000),
         waterEfficiency     |-> Round(waterEfficiency, v),
         energyEfficiency    |-> Round(energyEfficiency, v),
         sustainabilityScore |-> Round(waterEfficiency + energyEfficiency, 2 * v)]

\* the five parameter fields of a record
ParamsOf(r) ==
    [energyConsumption |-> r.energyConsumption, wasteGeneration |-> r.wasteGeneration,
     waterUsage |-> r.waterUsage, rawMaterials |-> r.rawMaterials,
     productionVolume |-> r.productionVolume]

\* the four metric fields of a record
MetricsOf(r) ==
    [carbonFootprint |-> r.carbonFootprint, waterEfficiency |-> r.waterEfficiency,
     energyEfficiency |-> r.energyEfficiency,
     sustainabilityScore |-> r.sustainabilityScore]

----------------------------------------------------------------------------
(* Request bodies of POST /api/calculate-metrics *)

\* productionVolume ranges over 1..MaxVolume in the grid below
MaxVolume == 6

\* every ratio waterUsage/productionVolume in [0, 6] and energyConsumption/
\* productionVolume in [0, 2] with a denominator up to MaxVolume: below, at and above
\* both clamps, with and without a fractional efficiency
GridBodies ==
    { [energyConsumption |-> e, wasteGeneration |-> g, waterUsage |-> w,
       rawMaterials |-> 0, productionVolume |-> v] :
         <<e, g, w, v>> \in
            { q \in (0..(2 * MaxVolume)) \X {0, 50, 800} \X (0..(6 * MaxVolume))
                      \X (1..MaxVolume) :
                  q[1] <= 2 * q[4] /\ q[3] <= 6 * q[4] } }

\* the parameters of the three seed scenarios
SeedBodies == { ParamsOf(defaultScenarios(0, 0, 0)[i]) : i \in 1..3 }

\* bodies the schema refuses
InvalidBodies ==
    { [energyConsumption |-> 10, wasteGeneration |-> 0, waterUsage |-> 10,
       rawMaterials |-> 0, productionVolume |-> 0],
      [energyConsumption |-> -1, wasteGeneration |-> 0, waterUsage |-> 10,
       rawMaterials |-> 0, productionVolume |-> 4] }

CalcBodies == GridBodies \cup SeedBodies \cup InvalidBodies

\* POST /api/calculate-metrics
PostCalculateMetrics(body) ==
    /\ last' = IF processParametersSchemaOk(body)
               THEN [op |-> "POST /api/calculate-metrics", body |-> body,
                     status |-> 200, json |-> calculateSustainabilityMetrics(body)]
               ELSE [op |-> "POST /api/calculate-metrics", body |-> body,
                     status |-> 400, json |-> [message |-> "Invalid parameters"]]
    /\ request' = NoRequest
    /\ UNCHANGED <<scenarios, currentId, now, issued, removed, inflight>>

\* the calculation on its own: one request, drawn from CalcBodies, is handled
CalcInit == StoreInit /\ request \in CalcBodies /\ inflight = <<>>

CalcNext == request # NoRequest /\ PostCalculateMetrics(request)

CalcSpec == CalcInit /\ [][CalcNext]_vars

----------------------------------------------------------------------------
(* parseInt and isNaN, on req.params.id: a text is a sequence of characters *)

\* the id texts the requests carry: ids of seed and created scenarios, an id never
\* assigned, zero, a negative number, digits followed by other characters, a
\* fraction, a leading zero, and texts without a leading digit.  None has an "x" or
\* white space, so the hexadecimal prefix and the leading white space that parseInt
\* also accepts are not exercised.
IdTexts ==
    { <<"1">>, <<"4">>, <<"5">>, <<"9">>, <<"0">>, <<"-", "1">>, <<"1", "a">>,
      <<"4", ".", "5">>, <<"0", "1">>, <<"a">>, <<"a", "1">>, <<"-">> }

Digits == {"0", "1", "2", "3", "4", "5", "6", "7", "8", "9"}

DigitValue(c) ==
    CASE c = "0" -> 0 [] c = "1" -> 1 [] c = "2" -> 2 [] c = "3" -> 3 [] c = "4" -> 4
      [] c = "5" -> 5 [] c = "6" -> 6 [] c = "7" -> 7 [] c = "8" -> 8 [] c = "9" -> 9

RECURSIVE DigitPrefixLen(_)
\* how many leading characters of the text are digits
DigitPrefixLen(text) ==
    IF text = <<>> \/ Head(text) \notin Digits THEN 0
    ELSE 1 + DigitPrefixLen(Tail(text))

RECURSIVE DecimalValue(_)
\* the number a sequence of digits writes in radix 10
DecimalValue(digits) ==
    IF digits = <<>> THEN 0
    ELSE 10 * DecimalValue(SubSeq(digits, 1, Len(digits) - 1))
             + DigitValue(digits[Len(digits)])

NaN == [nan |-> TRUE, value |-> 0]

\* parseInt(text) without a radix: an optional sign, then the longest run of digits;
\* whatever follows the digits is ignored; NaN when there is no digit at that place
parseInt(text) ==
    LET signed == text # <<>> /\ Head(text) \in {"-", "+"}
        body   == IF signed THEN Tail(text) ELSE text
        n      == DigitPrefixLen(body)
        digits == SubSeq(body, 1, n)
    IN  IF n = 0 THEN NaN
        ELSE [nan |-> FALSE,
              value |-> IF signed /\ Head(text) = "-"
                        THEN 0 - DecimalValue(digits) ELSE DecimalValue(digits)]

isNaN(x) == x.nan

----------------------------------------------------------------------------
(* The HTTP handlers (routes.ts).  A handler runs from the request to its response *)
(* in one step here: the requests are handled one after the other.                 *)

\* bodies of POST /api/scenarios and POST /api/calculate-metrics: two that pass the
\* schema (the second with fractional efficiencies), two that do not
RequestBodies ==
    { [name |-> "n1", energyConsumption |-> 3500, wasteGeneration |-> 800,
       waterUsage |-> 18000, rawMaterials |-> 7500, productionVolume |-> 10000],
      [name |-> "n2", energyConsumption |-> 2, wasteGeneration |-> 50,
       waterUsage |-> 10, rawMaterials |-> 1, productionVolume |-> 3],
      [name |-> "n3", energyConsumption |-> 10, wasteGeneration |-> 0,
       waterUsage |-> 10, rawMaterials |-> 0, productionVolume |-> 0],
      [name |-> "", energyConsumption |-> 10, wasteGeneration |-> 0,
       waterUsage |-> 10, rawMaterials |-> 0, productionVolume |-> 4] }

\* GET /api/scenarios
GetScenarios ==
    /\ last' = [op |-> "GET /api/scenarios", status |-> 200,
                json |-> getAllScenarios(scenarios)]
    /\ UNCHANGED <<scenarios, currentId, now, issued, removed, request, inflight>>

\* GET /api/scenarios/:id
GetScenarioById(text) ==
    /\ LET id == parseInt(text)
       IN  last' =
             IF isNaN(id)
             THEN [op |-> "GET /api/scenarios/:id", text |-> text, status |-> 400,
                   lookedUp |-> FALSE, json |-> [message |-> "Invalid scenario ID"]]
             ELSE IF getScenario(scenarios, id.value) = undefined
             THEN [op |-> "GET /api/scenarios/:id", text |-> text, status |-> 404,
                   lookedUp |-> TRUE, json |-> [message |-> "Scenario not found"]]
             ELSE [op |-> "GET /api/scenarios/:id", text |-> text, status |-> 200,
                   lookedUp |-> TRUE, json |-> getScenario(scenarios, id.value)]
    /\ UNCHANGED <<scenarios, currentId, now, issued, removed, request, inflight>>

\* a slip: the id is taken from the counter before the body is validated
PostScenarios_IdBeforeValidation(body) ==
    /\ currentId < MaxCurrentId
    /\ IF insertScenarioSchemaOk(body)
       THEN LET metrics == calculateSustainabilityMetrics(body)
                r == createScenario(scenarios, currentId, metrics @@ body, now)
            IN  /\ scenarios' = r.scenarios
                /\ currentId' = r.currentId
                /\ issued' = Append(issued, r.ret.id)
                /\ last' = [op |-> "POST /api/scenarios", body |-> body,
                            status |-> 200, json |-> r.ret]
       ELSE /\ last' = [op |-> "POST /api/scenarios", body |-> body, status |-> 400,
                        json |-> [message |-> "Invalid scenario data"]]
            /\ currentId' = currentId + 1
            /\ UNCHANGED <<scenarios, issued>>
    /\ UNCHANGED <<now, removed, request, inflight>>

\* POST /api/scenarios
PostScenarios(body) ==
    /\ currentId < MaxCurrentId
    /\ IF insertScenarioSchemaOk(body)
       THEN LET metrics == calculateSustainabilityMetrics(body)
                r == createScenario(scenarios, currentId, metrics @@ body, now)
            IN  /\ scenarios' = r.scenarios
                /\ currentId' = r.currentId
                /\ issued' = Append(issued, r.ret.id)
                /\ last' = [op |-> "POST /api/scenarios", body |-> body,
                            status |-> 200, json |-> r.ret]
       ELSE /\ last' = [op |-> "POST /api/scenarios", body |-> body, status |-> 400,
                        json |-> [message |-> "Invalid scenario data"]]
            /\ UNCHANGED <<scenarios, currentId, issued>>
    /\ UNCHANGED <<now, removed, request, inflight>>

\* DELETE /api/scenarios/:id
DeleteScenarioById(text) ==
    /\ LET id == parseInt(text)
       IN  IF isNaN(id)
           THEN /\ last' = [op |-> "DELETE /api/scenarios/:id", text |-> text,
                            status |-> 400, lookedUp |-> FALSE,
                            json |-> [message |-> "Invalid scenario ID"]]
                /\ UNCHANGED <<scenarios, removed>>
           ELSE LET r == deleteScenario(scenarios, id.value)
                IN  /\ scenarios' = r.scenarios
                    /\ removed' = IF r.ret THEN removed \cup {id.value} ELSE removed
                    /\ last' = [op |-> "DELETE /api/scenarios/:id", text |-> text,
                                status |-> IF r.ret THEN 200 ELSE 404,
                                lookedUp |-> TRUE,
                                json |-> [message |->
                                    IF r.ret THEN "Scenario deleted successfully"
                                    ELSE "Scenario not found"]]
    /\ UNCHANGED <<currentId, now, issued, request, inflight>>

Next ==
    \/ Tick
    \/ GetScenarios
    \/ \E text \in IdTexts : GetScenarioById(text)
    \/ \E body \in RequestBodies : PostCalculateMetrics(body)
    \/ \E body \in RequestBodies : PostScenarios(body)
    \/ \E text \in IdTexts : DeleteScenarioById(text)

Spec == Init /\ [][Next]_vars

----------------------------------------------------------------------------
(* The handlers with their await.  `await storage.createScenario(...)` and         *)
(* `await storage.deleteScenario(id)` run the store method to its end (it has no    *)
(* await of its own) and then suspend the handler; the response is sent when the    *)
(* handler resumes.  Between the two, any other handler may begin or resume.        *)

\* how many requests are in flight together
MaxRequests == 3

\* what a request in flight may be: a create with a body that passes the schema or
\* one that does not, a delete of a seed, of the first created id, of a malformed id
InflightKinds ==
    { [method |-> "POST", body |-> b, text |-> <<>>] :
          b \in {b \in RequestBodies : b.name \in {"n1", "n2", ""}} }
    \cup { [method |-> "DELETE", body |-> NoRequest, text |-> t] :
          t \in {<<"1">>, <<"4">>, <<"a">>} }

\* a request as received: its handler has not begun
Received(kind) ==
    [method |-> kind.method, body |-> kind.body, text |-> kind.text,
     pc |-> "received", status |-> 0, local |-> undefined]

AsyncInit ==
    /\ StoreInit
    /\ request = NoRequest
    /\ inflight \in [1..MaxRequests -> {Received(k) : k \in InflightKinds}]

\* POST /api/scenarios up to its await (routes.ts 91-100, storage.ts 93-100)
PostScenariosBegin(r) ==
    /\ inflight[r].method = "POST"
    /\ inflight[r].pc = "received"
    /\ IF insertScenarioSchemaOk(inflight[r].body)
       THEN LET scenarioData == inflight[r].body
                metrics == calculateSustainabilityMetrics(scenarioData)
                c == createScenario(scenarios, currentId, metrics @@ scenarioData, now)
            IN  /\ scenarios' = c.scenarios
                /\ currentId' = c.currentId
                /\ issued' = Append(issued, c.ret.id)
                /\ inflight' = [inflight EXCEPT ![r].pc = "awaiting",
                                                ![r].local = c.ret]
       ELSE /\ inflight' = [inflight EXCEPT ![r].pc = "answered", ![r].status = 400]
            /\ UNCHANGED <<scenarios, currentId, issued>>
    /\ UNCHANGED <<now, removed, last, request>>

\* POST /api/scenarios after its await: res.json(scenario)
PostScenariosResume(r) ==
    /\ inflight[r].method = "POST"
    /\ inflight[r].pc = "awaiting"
    /\ inflight' = [inflight EXCEPT ![r].pc = "answered", ![r].status = 200]
    /\ UNCHANGED <<scenarios, currentId, now, issued, removed, last, request>>

\* DELETE /api/scenarios/:id up to its await (routes.ts 113-119, storage.ts 104)
DeleteScenarioBegin(r) ==
    /\ inflight[r].method = "DELETE"
    /\ inflight[r].pc = "received"
    /\ LET id == parseInt(inflight[r].text)
       IN  IF isNaN(id)
           THEN /\ inflight' = [inflight EXCEPT ![r].pc = "answered",
                                                ![r].status = 400]
                /\ UNCHANGED <<scenarios, removed>>
           ELSE LET d == deleteScenario(scenarios, id.value)
                IN  /\ scenarios' = d.scenarios
                    /\ removed' = IF d.ret THEN removed \cup {id.value} ELSE removed
                    /\ inflight' = [inflight EXCEPT ![r].pc = "awaiting",
                                                    ![r].local = [deleted |-> d.ret]]
    /\ UNCHANGED <<currentId, now, issued, last, request>>

\* DELETE /api/scenarios/:id after its await: 404 if (!deleted), else the confirmation
DeleteScenarioResume(r) ==
    /\ inflight[r].method = "DELETE"
    /\ inflight[r].pc = "awaiting"
    /\ inflight' = [inflight EXCEPT
                       ![r].pc = "answered",
                       ![r].status = IF inflight[r].local.deleted THEN 200 ELSE 404]
    /\ UNCHANGED <<scenarios, currentId, now, issued, removed, last, request>>

AsyncNext ==
    \/ \E r \in 1..Len(inflight) : PostScenariosBegin(r)
    \/ \E r \in 1..Len(inflight) : PostScenariosResume(r)
    \/ \E r \in 1..Len(inflight) : DeleteScenarioBegin(r)
    \/ \E r \in 1..Len(inflight) : DeleteScenarioResume(r)

AsyncSpec == AsyncInit /\ [][AsyncNext]_vars

----------------------------------------------------------------------------
(* Properties of the store (checked under StoreSpec) *)

\* C1: every id a create returns is strictly greater than every id assigned before
\* it, the three seed ids included, whatever was deleted in between; so no id is
\* handed out twice.
C1_MonotonicIds ==
    /\ \A i, j \in 1..Len(issued) : i < j => issued[i] < issued[j]
    /\ last.op = "createScenario" =>
           /\ last.ret.id = issued[Len(issued)]
           /\ \A i \in 1..(Len(issued) - 1) : issued[i] < last.ret.id

\* a second create, made after some record was deleted
C1_Witness ==
    /\ last.op = "createScenario"
    /\ removed # {}
    /\ Len(issued) = 5

\* C2: deleting a stored id returns true, and in every later state getById(id) is
\* not-found and listAll holds no scenario with that id.
C2_DeletedStaysGone ==
    /\ (last.op = "deleteScenario" /\ last.wasStored) => last.ret = TRUE
    /\ \A id \in removed :
           /\ getScenario(scenarios, id) = undefined
           /\ \A i \in 1..Len(getAllScenarios(scenarios)) :
                  getAllScenarios(scenarios)[i].id # id
    /\ (last.op = "getScenario" /\ last.id \in removed) => last.ret = undefined
    /\ last.op = "getAllScenarios" =>
           \A i \in 1..Len(last.ret) : last.ret[i].id \notin removed

\* a deleted id is looked up after a later create
C2_Witness ==
    /\ last.op = "getScenario"
    /\ last.id \in removed
    /\ Len(issued) > 3
    /\ issued[Len(issued)] \in MapKeys(scenarios)

\* C3: deleting an id that is not stored (never assigned, or already deleted) returns
\* false and leaves the stored scenarios and the id counter as they were.
C3_DeleteAbsentChangesNothing ==
    [][ (last'.op = "deleteScenario" /\ ~last'.wasStored) =>
            /\ last'.ret = FALSE
            /\ scenarios' = scenarios
            /\ currentId' = currentId ]_vars

\* the second deletion of the same id
C3_Witness ==
    /\ last.op = "deleteScenario"
    /\ ~last.wasStored
    /\ last.id \in removed
    /\ last.ret = FALSE

\* the number of positions of sequence s that hold r
Occurrences(s, r) == Cardinality({i \in 1..Len(s) : s[i] = r})

\* C4: listAll returns exactly the stored scenarios, each once, and createdAt never
\* increases from one element to the next.
C4_ListAllSortedDescending ==
    LET l == getAllScenarios(scenarios)
        stored == MapValues(scenarios)
    IN  /\ Len(l) = Len(stored)
        /\ \A i \in 1..Len(stored) : Occurrences(l, stored[i]) = 1
        /\ \A i \in 1..Len(l) : Occurrences(stored, l[i]) = 1
        /\ \A i \in 1..(Len(l) - 1) : l[i].createdAt >= l[i + 1].createdAt
        /\ last.op = "getAllScenarios" =>
               \A i \in 1..(Len(last.ret) - 1) :
                   last.ret[i].createdAt >= last.ret[i + 1].createdAt

\* a listing of records stored under at least two different timestamps, one of them
\* created after the seeds
C4_Witness ==
    /\ last.op = "getAllScenarios"
    /\ Len(last.ret) >= 3
    /\ last.ret = getAllScenarios(scenarios)
    /\ \E i, j \in 1..Len(scenarios) :
           i < j /\ scenarios[i].value.createdAt < scenarios[j].value.createdAt
    /\ \E i \in 1..Len(scenarios) : scenarios[i].key > 3

\* C10: create returns a record whose id is the counter's value at the call and whose
\* other fields are the input's; right afterwards getById(that id) gives exactly that
\* record and the store holds one more scenario than before.
C10_CreateStoresAndReturns ==
    last.op = "createScenario" =>
        /\ last.ret.id = last.counterBefore
        /\ \A f \in DOMAIN last.input : last.ret[f] = last.input[f]
        /\ DOMAIN last.ret = DOMAIN last.input \cup {"id", "createdAt"}
        /\ getScenario(scenarios, last.ret.id) = last.ret
        /\ Len(scenarios) = last.sizeBefore + 1
        /\ currentId = last.counterBefore + 1

\* the first create on the freshly constructed store
C10_Witness ==
    /\ last.op = "createScenario"
    /\ last.counterBefore = 4
    /\ last.sizeBefore = 3
    /\ last.input.name = "n2"

\* C11: right after construction the store holds exactly the three seeds under ids
\* 1, 2, 3 (current, optimized, green in that order), and the first create made
\* afterwards returns id 4, whatever seeds were deleted in between.
C11_SeedsThenFour ==
    /\ last.op = "new MemStorage" =>
           /\ Len(scenarios) = 3
           /\ \A i \in 1..3 :
                  /\ scenarios[i].key = i
                  /\ scenarios[i].value.id = i
                  /\ scenarios[i].value.name = defaultScenarios(0, 0, 0)[i].name
           /\ currentId = 4
    /\ Len(issued) >= 4 => issued[4] = 4
    /\ (last.op = "createScenario" /\ Len(issued) = 4) => last.ret.id = 4

\* the first create, made after two seeds were deleted
C11_Witness ==
    /\ last.op = "createScenario"
    /\ Len(issued) = 4
    /\ Cardinality(removed) = 2
    /\ last.ret.id = 4

\* C12: no store operation changes a field of a scenario that stays stored; create
\* only adds one record, deleteById removes at most the record with the given id,
\* getById and listAll leave the stored scenarios and the counter as they were.
C12_StoredRecordsAreReadOnly ==
    [][ /\ \A k \in MapKeys(scenarios) \cap MapKeys(scenarios') :
               MapGet(scenarios', k) = MapGet(scenarios, k)
        /\ issued' # issued =>
               /\ last'.op = "createScenario"
               /\ Len(scenarios') = Len(scenarios) + 1
               /\ MapKeys(scenarios') = MapKeys(scenarios) \cup {last'.ret.id}
               /\ last'.ret.id \notin MapKeys(scenarios)
        /\ issued' = issued =>
               /\ currentId' = currentId
               /\ MapKeys(scenarios') \subseteq MapKeys(scenarios)
        /\ last'.op = "deleteScenario" =>
               /\ MapKeys(scenarios) \ MapKeys(scenarios') \subseteq {last'.id}
               /\ currentId' = currentId
        /\ last'.op \in {"getScenario", "getAllScenarios"} =>
               /\ scenarios' = scenarios
               /\ currentId' = currentId ]_vars

\* a created record was deleted while a seed and a second created record stay stored
C12_Witness ==
    /\ last.op = "deleteScenario"
    /\ last.ret = TRUE
    /\ last.id = 4
    /\ MapKeys(scenarios) = {2, 5}

\* C17: the counter is strictly greater than every key of the map, every record's id
\* is the key it is stored under, and the counter is 1 plus the number of records
\* ever inserted (seeds and creates), whatever was deleted.
C17_CounterAboveKeys ==
    /\ \A i \in 1..Len(scenarios) :
           /\ scenarios[i].key < currentId
           /\ scenarios[i].value.id = scenarios[i].key
    /\ currentId = 1 + Len(issued)

\* two creates and two deletions have happened
C17_Witness ==
    /\ Len(issued) = 5
    /\ Cardinality(removed) = 2
    /\ Len(scenarios) = 3
    /\ currentId = 6

----------------------------------------------------------------------------
(* Properties of the calculation (checked under CalcSpec) *)

Calculated == last.op = "POST /api/calculate-metrics" /\ last.status = 200

\* C5 as stated: the returned sustainabilityScore equals round((waterEfficiency +
\* energyEfficiency) / 2) taken over the rounded efficiencies of the same result.
C5_ScoreFromRoundedEfficiencies ==
    Calculated =>
        last.json.sustainabilityScore =
            Round(last.json.waterEfficiency + last.json.energyEfficiency, 2)

\* C5 amended: the returned sustainabilityScore is the mean of the two clamped
\* efficiencies as they are before rounding, rounded to the nearest integer (a tie
\* going up); it is equal to, or one less than, the value computed from the rounded
\* efficiencies.
C5_ScoreFromUnroundedEfficiencies ==
    Calculated =>
        LET v == last.body.productionVolume
            w == Max(0, Min(100 * v, waterEfficiencyRaw(last.body)))
            e == Max(0, Min(100 * v, energyEfficiencyRaw(last.body)))
            score == last.json.sustainabilityScore
            fromRounded ==
                Round(last.json.waterEfficiency + last.json.energyEfficiency, 2)
        IN  /\ 2 * score * v - v <= w + e
            /\ w + e < 2 * score * v + v
            /\ fromRounded - score \in {0, 1}

\* a result whose score is not the one computed from its rounded efficiencies
C5_Witness ==
    /\ Calculated
    /\ last.json.sustainabilityScore + 1 =
           Round(last.json.waterEfficiency + last.json.energyEfficiency, 2)

\* C7 as stated: for the parameters of the seed "Cenario Otimizado" calculate returns
\* carbonFootprint 2.0, waterEfficiency 85 and energyEfficiency 92.
C7_ScenarioBAsSeeded ==
    (Calculated /\ last.body = ParamsOf(defaultScenarios(0, 0, 0)[2])) =>
        /\ last.json.carbonFootprint = 20
        /\ last.json.waterEfficiency = 85
        /\ last.json.energyEfficiency = 92

\* C7 amended: for those parameters calculate returns carbonFootprint 2.6,
\* waterEfficiency 100 and energyEfficiency 100.
C7_ScenarioBAsCalculated ==
    (Calculated /\ last.body = ParamsOf(defaultScenarios(0, 0, 0)[2])) =>
        /\ last.json.carbonFootprint = 26
        /\ last.json.waterEfficiency = 100
        /\ last.json.energyEfficiency = 100

\* the calculation was asked for exactly those parameters
C7_Witness ==
    /\ Calculated
    /\ last.body.energyConsumption = 3500
    /\ last.body.wasteGeneration = 800
    /\ last.body.waterUsage = 18000
    /\ last.body.rawMaterials = 7500
    /\ last.body.productionVolume = 10000

\* C9: for valid parameters waterEfficiency, energyEfficiency and sustainabilityScore
\* are integers in 0..100 and carbonFootprint is a non-negative number of tenths.
C9_MetricsInRange ==
    Calculated =>
        /\ last.json.waterEfficiency \in 0..100
        /\ last.json.energyEfficiency \in 0..100
        /\ last.json.sustainabilityScore \in 0..100
        /\ last.json.carbonFootprint \in Nat

\* water use above twice the baseline with energy use below the baseline: both
\* clamps act in one result
C9_Witness ==
    /\ Calculated
    /\ waterEfficiencyRaw(last.body) < 0
    /\ energyEfficiencyRaw(last.body) > 100 * last.body.productionVolume
    /\ last.json.waterEfficiency = 0
    /\ last.json.energyEfficiency = 100
    /\ last.json.carbonFootprint > 0

\* C14: waterEfficiency is 100 when waterUsage / productionVolume is at or below 2.5
\* and 0 when it is at or above 5.0; energyEfficiency is 100 when energyConsumption /
\* productionVolume is at or below 0.5 and 0 when it is at or above 1.0.
C14_ClampingBoundaries ==
    Calculated =>
        LET p == last.body
        IN  /\ 2 * p.waterUsage <= 5 * p.productionVolume =>
                   last.json.waterEfficiency = 100
            /\ p.waterUsage >= 5 * p.productionVolume =>
                   last.json.waterEfficiency = 0
            /\ 2 * p.energyConsumption <= p.productionVolume =>
                   last.json.energyEfficiency = 100
            /\ p.energyConsumption >= p.productionVolume =>
                   last.json.energyEfficiency = 0

\* water use strictly below its baseline, energy use exactly at twice its baseline
C14_Witness ==
    /\ Calculated
    /\ 2 * last.body.waterUsage < 5 * last.body.productionVolume
    /\ last.body.waterUsage > 0
    /\ last.body.energyConsumption = last.body.productionVolume
    /\ last.json.waterEfficiency = 100
    /\ last.json.energyEfficiency = 0

----------------------------------------------------------------------------
(* Properties of the service behind its HTTP handlers (checked under Spec) *)

\* C6 as stated: in every reachable state, the seeds of a new store included, the four
\* metrics of every stored scenario are calculate applied to its own five parameters.
C6_StoredMetricsAreCalculated ==
    \A i \in 1..Len(scenarios) :
        MetricsOf(scenarios[i].value) =
            calculateSustainabilityMetrics(ParamsOf(scenarios[i].value))

\* a text that writes a positive integer: digits only, the number not zero
IsPositiveIntegerText(text) ==
    /\ text # <<>>
    /\ \A i \in 1..Len(text) : text[i] \in Digits
    /\ DecimalValue(text) > 0

\* C8 as stated: get-by-id and delete-by-id answer 400 for every id text that is not
\* a positive integer, without looking it up (so no 404 and no deletion for it).
C8_MalformedIdAnswered400 ==
    ( /\ last.op \in {"GET /api/scenarios/:id", "DELETE /api/scenarios/:id"}
      /\ ~IsPositiveIntegerText(last.text) ) =>
        /\ last.status = 400
        /\ ~last.lookedUp

\* C13: a scenario created through POST /api/scenarios with a body that passes
\* validation is stored and returned with metrics equal to calculate applied to the
\* parameters of that body; a body that fails validation is answered 400 and leaves
\* the stored scenarios and the id counter unchanged.
C13_PostScenarioMetrics ==
    [][ last'.op = "POST /api/scenarios" =>
            /\ last'.status = (IF insertScenarioSchemaOk(last'.body) THEN 200 ELSE 400)
            /\ last'.status = 200 =>
                   /\ MetricsOf(last'.json) =
                          calculateSustainabilityMetrics(ParamsOf(last'.body))
                   /\ ParamsOf(last'.json) = ParamsOf(last'.body)
                   /\ last'.json.name = last'.body.name
                   /\ getScenario(scenarios', last'.json.id) = last'.json
            /\ last'.status = 400 =>
                   /\ scenarios' = scenarios
                   /\ currentId' = currentId ]_vars

\* a second scenario was created over HTTP, after a deletion, from the body whose
\* efficiencies are fractional
C13_Witness ==
    /\ last.op = "POST /api/scenarios"
    /\ last.status = 200
    /\ last.body.name = "n2"
    /\ last.json.id = 5
    /\ removed # {}
    /\ last.json.waterEfficiency = 67

----------------------------------------------------------------------------
(* Properties of interleaved handlers (checked under AsyncSpec) *)

\* the create requests whose createScenario call has been made
Created ==
    { r \in 1..Len(inflight) :
          /\ inflight[r].method = "POST"
          /\ inflight[r].pc = "awaiting" \/ inflight[r].status = 200 }

\* the delete requests whose deleteScenario call on id has been made
DeleteCalled(id) ==
    { r \in 1..Len(inflight) :
          /\ inflight[r].method = "DELETE"
          /\ inflight[r].pc = "awaiting" \/ inflight[r].status \in {200, 404}
          /\ parseInt(inflight[r].text) = [nan |-> FALSE, value |-> id] }

\* all delete requests for id, begun or not
DeleteRequests(id) ==
    { r \in 1..Len(inflight) :
          /\ inflight[r].method = "DELETE"
          /\ parseInt(inflight[r].text) = [nan |-> FALSE, value |-> id] }

\* C15: however the handlers interleave at their await, every create request gets an
\* id no other create request got (and no seed's id), and every created record is
\* stored: it is in the map, unless a delete request has removed it since.
C15_ConcurrentCreatesDistinct ==
    /\ \A r1, r2 \in Created :
           r1 # r2 => inflight[r1].local.id # inflight[r2].local.id
    /\ \A r \in Created :
           /\ inflight[r].local.id > 3
           /\ \/ getScenario(scenarios, inflight[r].local.id) = inflight[r].local
              \/ inflight[r].local.id \in removed
    /\ Len(scenarios) = 3 + Cardinality(Created) - Cardinality(removed)

\* two create requests are suspended at their await at the same time, neither of
\* their records deleted
C15_Witness ==
    \E r1, r2 \in Created :
        /\ r1 # r2
        /\ inflight[r1].pc = "awaiting"
        /\ inflight[r2].pc = "awaiting"
        /\ getScenario(scenarios, inflight[r1].local.id) = inflight[r1].local
        /\ getScenario(scenarios, inflight[r2].local.id) = inflight[r2].local

\* C16: of the delete requests in flight for one stored id, in every interleaving
\* exactly one is answered 200 and every other one 404; the record is removed once,
\* and no other record is affected.
C16_ConcurrentDeletesOnce ==
    /\ \A id \in 1..(3 + MaxRequests) :
           LET called == DeleteCalled(id)
               won == {r \in called : inflight[r].local.deleted}
           IN  /\ Cardinality(won) <= 1
               /\ (id \in 1..3 /\ called # {}) =>
                      /\ Cardinality(won) = 1
                      /\ id \in removed
                      /\ getScenario(scenarios, id) = undefined
               /\ \A r \in called :
                      inflight[r].pc = "answered" =>
                          inflight[r].status =
                              IF inflight[r].local.deleted THEN 200 ELSE 404
               /\ (id \in 1..3 /\ DeleteRequests(id) # {}
                     /\ \A r \in DeleteRequests(id) : inflight[r].pc = "answered") =>
                      /\ Cardinality({r \in DeleteRequests(id) :
                                         inflight[r].status = 200}) = 1
                      /\ \A r \in DeleteRequests(id) : inflight[r].status \in {200, 404}
    /\ \A id \in 1..3 : DeleteCalled(id) = {} => id \in MapKeys(scenarios)
    /\ \A id \in MapKeys(scenarios) \cup removed :
           id \in removed <=> \E r \in DeleteCalled(id) : inflight[r].local.deleted

\* two deletes of seed 1: one began, and while it is suspended the other began and
\* was answered 404
C16_Witness ==
    \E r1, r2 \in DeleteRequests(1) :
        /\ r1 # r2
        /\ inflight[r1].pc = "awaiting"
        /\ inflight[r1].local.deleted
        /\ inflight[r2].pc = "answered"
        /\ inflight[r2].status = 404
        /\ {2, 3} \subseteq MapKeys(scenarios)

====
